---- MODULE Spec2Model ----
(***************************************************************************)
(* Model of src/services/analysis.py: the onset fusion of                  *)
(* get_high_quality_onsets, the section synthesis of                       *)
(* analyze_structure_logic and the aggregation of                          *)
(* analyze_classification_logic.  The Essentia primitives (peak picking,   *)
(* change-point estimator, neural inference) are inputs drawn in Init.     *)
(*                                                                         *)
(* Units.  Onset candidates are held in half milliseconds (ticks) before   *)
(* rounding and in whole milliseconds after it.  Structure times are held  *)
(* in units of 1/sample_rate second, so that f * hop_size / sample_rate is *)
(* the integer f * hop_size and int(t * sample_rate) is t.  Activations    *)
(* are fixed-point numbers: Hundredths(100) stands for 1.0.                *)
(***************************************************************************)
EXTENDS Integers, Sequences, FiniteSets, TLC

\* ------------------------------------------------------------------ bounds
MaxCand == 2
MaxCuts == 3
MaxFrames == 2
NumGenres == 6
NumTags == 3

\* ------------------------------------------------------- program constants
hop_size == 1024
MinGapMs == 50
TopK == 5

VARIABLES
    opc,              \* position in get_high_quality_onsets
    onsets_hfc,       \* candidate ticks picked on the HFC stream
    onsets_complex,   \* candidate ticks picked on the Complex stream
    all_onsets,       \* sorted union of the rounded candidates (ms)
    oidx,             \* index of the next element of all_onsets[1:] to scan
    filtered_onsets,  \* the timeline under construction (ms)
    scalar_promotion, \* how NumPy types float32 - float: "value_based" or "weak_scalar"
    spc,              \* position in analyze_structure_logic
    audio,            \* the samples, run-length encoded: <<length, energy>>
    boundaries_frames,\* frame indices returned by the change-point estimator
    boundaries,       \* [0.0] + bound_secs + [duration]
    sidx,             \* loop variable i of the section loop
    sections,         \* the sections appended so far
    cpc,              \* position in analyze_classification_logic
    files,            \* the model weight files that exist under models_dir
    raises,           \* which primitives raise when called
    audio_16k,        \* "resampled" or the "original" fallback
    activations,      \* genre model output, frames x labels
    tags_activations, \* tag model output, frames x labels
    mood_preds,       \* mood model output, frames x (valence, arousal)
    genres, moods, tags

ovars == <<opc, onsets_hfc, onsets_complex, all_onsets, oidx, filtered_onsets,
           scalar_promotion>>
svars == <<spc, audio, boundaries_frames, boundaries, sidx, sections>>
cvars == <<cpc, files, raises, audio_16k, activations, tags_activations,
           mood_preds, genres, moods, tags>>
vars == <<ovars, svars, cvars>>

\* ----------------------------------------------------------------- helpers
Min(a, b) == IF a <= b THEN a ELSE b
Max(a, b) == IF a >= b THEN a ELSE b
Abs(x) == IF x < 0 THEN -x ELSE x

SetMin(S) == CHOOSE x \in S : \A y \in S : x <= y

\* sorted(list(S)) for a set of numbers
RECURSIVE SortedOfSet(_)
SortedOfSet(S) ==
    IF S = {} THEN <<>>
    ELSE LET m == SetMin(S) IN <<m>> \o SortedOfSet(S \ {m})

RECURSIVE InsertSorted(_, _)
InsertSorted(x, s) ==
    IF s = <<>> THEN <<x>>
    ELSE IF x <= Head(s) THEN <<x>> \o s
    ELSE <<Head(s)>> \o InsertSorted(x, Tail(s))

\* sorted(list) for a list of numbers (duplicates kept)
RECURSIVE sorted(_)
sorted(s) == IF s = <<>> THEN <<>> ELSE InsertSorted(Head(s), sorted(Tail(s)))

Last(s) == s[Len(s)]

\* ======================================================= get_high_quality_onsets
\* np.round(x, 3) of a time given in half milliseconds: to the nearest
\* millisecond, a tie going to the even millisecond.
RoundMs(t) ==
    IF t % 2 = 0 THEN t \div 2
    ELSE IF ((t - 1) \div 2) % 2 = 0 THEN (t - 1) \div 2 ELSE (t + 1) \div 2

\* candidate times (half milliseconds) the peak picker may report
OnsetTicks == {0, 2, 20, 60, 98, 99, 101, 102, 120}

\* the subsets of S of at most n elements
RECURSIVE SubsetsUpTo(_, _)
SubsetsUpTo(S, n) ==
    IF n = 0 \/ S = {} THEN {{}}
    ELSE LET x == CHOOSE y \in S : TRUE
         IN SubsetsUpTo(S \ {x}, n)
            \cup {T \cup {x} : T \in SubsetsUpTo(S \ {x}, n - 1)}

CandidateSets == SubsetsUpTo(OnsetTicks, MaxCand)

\* a filter that compares with a gap one millisecond too short
KeepOnsetShortGap(o, last) == o - last >= MinGapMs - 1

\* k * 2^n / 1000 by long division: <<quotient, remainder>> after n doublings
RECURSIVE ScaledBy(_, _, _)
ScaledBy(q, r, n) ==
    IF n = 0 THEN <<q, r>>
    ELSE ScaledBy(2 * q + (2 * r) \div 1000, (2 * r) % 1000, n - 1)

\* the doublings after which the quotient of k / 1000 fills a 24-bit mantissa
RECURSIVE MantissaShift(_, _, _)
MantissaShift(q, r, n) ==
    IF q >= 2^23 THEN n
    ELSE MantissaShift(2 * q + (2 * r) \div 1000, (2 * r) % 1000, n + 1)

\* round to nearest, ties to even, of quotient q with remainder r out of m
RoundHalfEven(q, r, m) ==
    IF 2 * r > m \/ (2 * r = m /\ q % 2 = 1) THEN q + 1 ELSE q

\* the float32 that np.round(x, 3) yields for k milliseconds (0 <= k < 250),
\* that is float32(k / 1000), as a multiple of 2^-33 second
F32Units(k) ==
    IF k = 0 THEN 0
    ELSE LET n == MantissaShift(k \div 1000, k % 1000, 0)
             d == ScaledBy(k \div 1000, k % 1000, n)
         IN RoundHalfEven(d[1], d[2], 1000) * 2^(33 - n)

\* the float32 nearest to a non-negative multiple d of 2^-33 second
RECURSIVE F32Step(_, _)
F32Step(d, step) == IF d \div step >= 2^24 THEN F32Step(d, 2 * step) ELSE step

RoundF32(d) ==
    LET step == F32Step(d, 1)
    IN RoundHalfEven(d \div step, d % step, step) * step

\* the least multiple of 2^-33 second that is >= the double 0.050
MinGapDoubleUnits == ScaledBy(0, MinGapMs, 33)[1] + 1

\* line 69: o - filtered_onsets[-1] >= 0.050, o a float32 and
\* filtered_onsets[-1] a Python float holding a float32 value.  With
\* value-based promotion the difference and the comparison are in double
\* precision; with weak scalars both are in float32.
KeepOnset(o, last) ==
    LET d == F32Units(o) - F32Units(last)
    IN IF scalar_promotion = "value_based"
       THEN d >= MinGapDoubleUnits
       ELSE RoundF32(d) >= F32Units(MinGapMs)

OnsetsIdle ==
    /\ opc = "idle" /\ onsets_hfc = {} /\ onsets_complex = {}
    /\ all_onsets = <<>> /\ oidx = 0 /\ filtered_onsets = <<>>
    /\ scalar_promotion = "none"

InitOnsets ==
    /\ opc = "combine"
    /\ onsets_hfc \in CandidateSets
    /\ onsets_complex \in CandidateSets
    /\ scalar_promotion \in {"value_based", "weak_scalar"}
    /\ all_onsets = <<>>
    /\ oidx = 0
    /\ filtered_onsets = <<>>

\* line 62, and lines 65-67: the first candidate is always kept
Combine ==
    /\ opc = "combine"
    /\ LET u == SortedOfSet({RoundMs(t) : t \in onsets_hfc}
                            \cup {RoundMs(t) : t \in onsets_complex})
       IN /\ all_onsets' = u
          /\ filtered_onsets' = IF u # <<>> THEN <<u[1]>> ELSE <<>>
          /\ oidx' = 2
          /\ opc' = IF Len(u) >= 2 THEN "filter" ELSE "done"
    /\ UNCHANGED <<onsets_hfc, onsets_complex, scalar_promotion, svars, cvars>>

\* lines 68-70: one iteration of the loop over all_onsets[1:]
FilterStep ==
    /\ opc = "filter"
    /\ oidx <= Len(all_onsets)
    /\ LET o == all_onsets[oidx]
       IN filtered_onsets' = IF KeepOnset(o, Last(filtered_onsets))
                             THEN Append(filtered_onsets, o)
                             ELSE filtered_onsets
    /\ oidx' = oidx + 1
    /\ opc' = IF oidx = Len(all_onsets) THEN "done" ELSE "filter"
    /\ UNCHANGED <<onsets_hfc, onsets_complex, scalar_promotion, all_onsets, svars, cvars>>

NextOnsets == Combine \/ FilterStep

\* ======================================================= analyze_structure_logic
AudioRunLens == {3000, 5120}
AudioEnergies == {0, 4, 9}     \* squared amplitude, in hundredths
EnergyThreshold == 4           \* 0.04, in hundredths

Runs == AudioRunLens \X AudioEnergies
Audios == {<<r>> : r \in Runs} \cup {<<r1, r2>> : r1 \in Runs, r2 \in Runs}

RECURSIVE NumSamples(_)
NumSamples(a) == IF a = <<>> THEN 0 ELSE Head(a)[1] + NumSamples(Tail(a))

\* duration = len(audio) / sample_rate, in units of 1/sample_rate second
Duration(a) == NumSamples(a)

\* index of the last frame of the frame generator (line 105, frames centred
\* on multiples of hop_size): the last frame is the first one whose centre
\* is at or beyond the end of the audio.  The estimator returns indices of
\* these frames.
LastFrame(a) == (NumSamples(a) + hop_size - 1) \div hop_size

RECURSIVE NonDecreasing(_, _, _)
NonDecreasing(lo, hi, n) ==
    IF n = 0 THEN {<<>>}
    ELSE {<<>>} \cup UNION {{<<f>> \o s : s \in NonDecreasing(f, hi, n - 1)} : f \in lo..hi}

\* sum of the squared samples of audio[lo:hi] (hundredths), hi <= len(audio)
RECURSIVE EnergySum(_, _, _)
EnergySum(a, lo, hi) ==
    IF a = <<>> \/ hi <= lo THEN 0
    ELSE LET n == Head(a)[1]
             l == Min(lo, n)
             h == Min(hi, n)
         IN (IF h > l THEN (h - l) * Head(a)[2] ELSE 0)
            + EnergySum(Tail(a), Max(lo - n, 0), Max(hi - n, 0))

\* lines 142-146: is np.mean(chunk**2) > 0.04, the energy of an empty chunk being 0
IsLoud(a, start, end) ==
    LET start_s == Min(start, NumSamples(a))
        end_s == Min(end, NumSamples(a))
    IN IF end_s - start_s > 0
       THEN EnergySum(a, start_s, end_s) > EnergyThreshold * (end_s - start_s)
       ELSE FALSE

\* a labelling that consults the energy before the position
SectionLabelEnergyFirst(a, start, end) ==
    LET duration == Duration(a)
    IN IF IsLoud(a, start, end) THEN "chorus"
       ELSE IF 10 * (start + end) < 2 * duration THEN "intro"
       ELSE IF 10 * (start + end) > 18 * duration THEN "outro"
       ELSE "verse"

\* lines 136-146: pos = ((start + end) / 2) / duration against 0.1 and 0.9
SectionLabel(a, start, end) ==
    LET duration == Duration(a)
    IN IF 10 * (start + end) < 2 * duration THEN "intro"
       ELSE IF 10 * (start + end) > 18 * duration THEN "outro"
       ELSE IF IsLoud(a, start, end) THEN "chorus" ELSE "verse"

StructureIdle ==
    /\ spc = "idle" /\ audio = <<>> /\ boundaries_frames = <<>>
    /\ boundaries = <<>> /\ sidx = 0 /\ sections = <<>>

InitStructure ==
    /\ spc = "boundaries"
    /\ audio \in Audios
    /\ boundaries_frames \in NonDecreasing(0, LastFrame(audio), MaxCuts)
    /\ boundaries = <<>>
    /\ sidx = 0
    /\ sections = <<>>

\* lines 117-118
ComputeBoundaries ==
    /\ spc = "boundaries"
    /\ LET bound_secs == sorted([i \in 1..Len(boundaries_frames) |->
                                    boundaries_frames[i] * hop_size])
       IN boundaries' = <<0>> \o bound_secs \o <<Duration(audio)>>
    /\ spc' = "branch"
    /\ UNCHANGED <<audio, boundaries_frames, sidx, sections, ovars, cvars>>

\* a threshold one boundary too high
EnoughSegmentsHigh == Len(boundaries) > 4

\* a threshold one boundary too low
EnoughSegmentsLow == Len(boundaries) > 2

\* line 127
EnoughSegments == Len(boundaries) > 3

\* a section that ends where it starts
SectionAtSameBoundary(a, b, i) ==
    [start |-> b[i + 1], end |-> b[i + 1],
     label |-> SectionLabel(a, b[i + 1], b[i + 1]), duration |-> 0]

\* lines 132-153: the section between boundaries[i] and boundaries[i+1] (i from 0)
SectionAt(a, b, i) ==
    LET start == b[i + 1]
        end == b[i + 2]
    IN [start |-> start, end |-> end,
        label |-> SectionLabel(a, start, end),
        duration |-> end - start]

\* lines 131-153: one iteration of the section loop
LabelSection ==
    /\ spc \in {"branch", "loop"}
    /\ EnoughSegments
    /\ sidx < Len(boundaries) - 1
    /\ sections' = Append(sections, SectionAt(audio, boundaries, sidx))
    /\ sidx' = sidx + 1
    /\ spc' = IF sidx + 1 = Len(boundaries) - 1 THEN "done" ELSE "loop"
    /\ UNCHANGED <<audio, boundaries_frames, boundaries, ovars, cvars>>

\* lines 154-161
Fallback ==
    /\ spc = "branch"
    /\ ~EnoughSegments
    /\ sections' = <<[start |-> 0, end |-> Duration(audio),
                      label |-> "full", duration |-> Duration(audio)]>>
    /\ spc' = "done"
    /\ UNCHANGED <<audio, boundaries_frames, boundaries, sidx, ovars, cvars>>

NextStructure == ComputeBoundaries \/ LabelSection \/ Fallback

\* ================================================== analyze_classification_logic
RECURSIVE Gcd(_, _)
Gcd(a, b) == IF b = 0 THEN a ELSE Gcd(b, a % b)

RECURSIVE LcmUpTo(_)
LcmUpTo(n) == IF n <= 1 THEN 1 ELSE LET l == LcmUpTo(n - 1) IN (l * n) \div Gcd(l, n)

\* Fixed point: a hundredth is FrameLcm units, so that the mean of up to
\* MaxFrames per-frame values given in hundredths is exact.
FrameLcm == LcmUpTo(MaxFrames)
Hundredths(h) == h * FrameLcm

\* services/labels.py: the label vocabularies (distinct labels)
GENRE_LABELS == [i \in 1..NumGenres |-> "genre_" \o ToString(i)]
TAG_LABELS == [i \in 1..NumTags |-> "tag_" \o ToString(i)]

\* the files analyze_classification_logic looks for under models_dir
GenrePathNested == "effnetdiscogs/effnetdiscogs-bs64-1.pb"
GenrePathFlat == "effnetdiscogs-bs64-1.pb"
MusicnnPathNested == "musicnn/msd-musicnn-1.pb"
MusicnnPathFlat == "msd-musicnn-1.pb"
MoodPath == "classification_heads/emomusic-msd-musicnn-1.pb"
ModelPaths == {GenrePathNested, GenrePathFlat, MusicnnPathNested, MusicnnPathFlat, MoodPath}

\* the primitives that may raise: es.Resample, the genre model, the tag
\* model, the embedding model, the mood model
FailPoints == {"resample", "genre", "tags", "embeddings", "mood"}

\* lines 193-197: the nested path, else the flat one
GenreModelExists ==
    LET genre_model_path == IF GenrePathNested \in files THEN GenrePathNested
                            ELSE GenrePathFlat
    IN genre_model_path \in files

\* lines 224-228
MusicnnModelExists ==
    LET musicnn_path == IF MusicnnPathNested \in files THEN MusicnnPathNested
                        ELSE MusicnnPathFlat
    IN musicnn_path \in files

\* a mood head that is used whether its file exists or not
MoodModelAssumed == TRUE

\* line 263: a single path is tried for the mood head
MoodModelExists == MoodPath \in files

\* lines 175-176
Placeholder == [label |-> "Unknown", confidence |-> 0, all_scores |-> {}]

RECURSIVE ColSum(_, _, _)
ColSum(m, j, n) == IF n = 0 THEN 0 ELSE m[n][j] + ColSum(m, j, n - 1)

\* np.mean(m, axis=0)
MeanAxis0(m) == [j \in 1..Len(m[1]) |-> ColSum(m, j, Len(m)) \div Len(m)]

\* np.argmax: the first index holding the maximum
ArgMax(v) ==
    CHOOSE i \in 1..Len(v) :
        /\ \A j \in 1..Len(v) : v[j] <= v[i]
        /\ \A j \in 1..(i - 1) : v[j] < v[i]

\* np.argsort (default kind, not stable): every ordering of the indices by
\* ascending value, indices of equal value in any order
RECURSIVE ArgSortsOf(_, _)
ArgSortsOf(v, S) ==
    IF S = {} THEN {<<>>}
    ELSE UNION {{<<i>> \o p : p \in ArgSortsOf(v, S \ {i})} :
                   i \in {i \in S : \A j \in S : v[i] <= v[j]}}

ArgSorts(v) == ArgSortsOf(v, 1..Len(v))

\* p[-5:][::-1]
LastReversed(p, k) ==
    LET n == Min(k, Len(p)) IN [i \in 1..n |-> p[Len(p) + 1 - i]]

\* d[k] = v on a dict held as a set of <<key, value>> pairs
DictSet(d, k, v) == {e \in d : e[1] # k} \cup {<<k, v>>}

\* lines 213-214
RECURSIVE TopScores(_, _, _)
TopScores(d, mean, idxs) ==
    IF idxs = <<>> THEN d
    ELSE TopScores(DictSet(d, GENRE_LABELS[Head(idxs)], mean[Head(idxs)]),
                   mean, Tail(idxs))

\* a genre stage that skips the length test when the vector is too short
GenreResultNoLengthTest(g, mean, p) ==
    LET top_idx == ArgMax(mean)
    IN [label |-> GENRE_LABELS[top_idx],
        confidence |-> mean[top_idx],
        all_scores |-> TopScores(g.all_scores, mean, LastReversed(p, TopK))]

\* a genre stage that keeps six scores
GenreResultTopSix(g, mean, p) ==
    IF Len(mean) = Len(GENRE_LABELS)
    THEN LET top_idx == ArgMax(mean)
         IN [label |-> GENRE_LABELS[top_idx],
             confidence |-> mean[top_idx],
             all_scores |-> TopScores(g.all_scores, mean, LastReversed(p, TopK + 1))]
    ELSE [g EXCEPT !.label = "Error: Dimension Mismatch"]

\* lines 206-216: genres after the stage, p being the outcome of np.argsort
GenreResult(g, mean, p) ==
    IF Len(mean) = Len(GENRE_LABELS)
    THEN LET top_idx == ArgMax(mean)
         IN [label |-> GENRE_LABELS[top_idx],
             confidence |-> mean[top_idx],
             all_scores |-> TopScores(g.all_scores, mean, LastReversed(p, TopK))]
    ELSE [g EXCEPT !.label = "Error: Dimension Mismatch"]

TagThreshold == Hundredths(15)

\* a tag test that admits the threshold itself
TagIncludedAtThreshold(score, i) == score >= TagThreshold /\ i <= Len(TAG_LABELS)

\* line 252, i counted from 1
TagIncluded(score, i) == score > TagThreshold /\ i <= Len(TAG_LABELS)

\* lines 251-253
RECURSIVE TagList(_, _)
TagList(mean, n) ==
    IF n = 0 THEN <<>>
    ELSE LET before == TagList(mean, n - 1)
         IN IF TagIncluded(mean[n], n) THEN Append(before, TAG_LABELS[n]) ELSE before

\* a centre that is always the one of the 1-9 scale
MoodCenterFixed(valence, arousal) == Hundredths(500)

\* lines 294-296
MoodCenter(valence, arousal) ==
    IF Max(Abs(valence), Abs(arousal)) <= Hundredths(150)
    THEN Hundredths(50) ELSE Hundredths(500)

\* lines 283-301
MoodLabel(valence, arousal) ==
    LET five == Hundredths(500)
        first == IF valence >= five /\ arousal >= five THEN "Happy/Excited"
                 ELSE IF valence >= five /\ arousal < five THEN "Relaxed"
                 ELSE IF valence < five /\ arousal < five THEN "Sad"
                 ELSE IF valence < five /\ arousal >= five THEN "Aggressive"
                 ELSE "Neutral"
        center == MoodCenter(valence, arousal)
    IN IF valence >= center /\ arousal >= center THEN "Happy"
       ELSE IF valence >= center /\ arousal < center THEN "Relaxed"
       ELSE IF valence < center /\ arousal < center THEN "Sad"
       ELSE IF valence < center /\ arousal >= center THEN "Aggressive"
       ELSE first

\* lines 271-305
MoodResult(preds) ==
    LET mean_mood == MeanAxis0(preds)
        valence == mean_mood[1]
        arousal == mean_mood[2]
    IN [label |-> MoodLabel(valence, arousal),
        confidence |-> Hundredths(100),
        all_scores |-> {<<"valence", valence>>, <<"arousal", arousal>>}]

\* ------------------------------------------------------- inputs of the stage
RECURSIVE SeqsUpTo(_, _)
SeqsUpTo(S, n) ==
    IF n = 0 THEN {<<>>}
    ELSE {<<>>} \cup {<<x>> \o q : x \in S, q \in SeqsUpTo(S, n - 1)}

\* matrices of 1..MaxFrames rows: any first row, further rows from a palette
MatricesOf(firstRows, palette) ==
    UNION {{<<r>> \o e : e \in SeqsUpTo(palette[Len(r)], MaxFrames - 1)} : r \in firstRows}

OneHot(n, k, lo, hi) == [i \in 1..n |-> IF i = k THEN hi ELSE lo]

GenrePalette(n) ==
    {OneHot(n, 0, Hundredths(10), Hundredths(30)),
     OneHot(n, 1, Hundredths(10), Hundredths(30)),
     OneHot(n, n, Hundredths(10), Hundredths(30))}

GenreMatrices ==
    MatricesOf([1..NumGenres -> {Hundredths(10), Hundredths(30)}]
               \cup [1..(NumGenres - 1) -> {Hundredths(10), Hundredths(30)}],
               [n \in {NumGenres - 1, NumGenres} |-> GenrePalette(n)])

TagPalette(n) ==
    {OneHot(n, 0, Hundredths(10), Hundredths(20)),
     OneHot(n, 1, Hundredths(10), Hundredths(20)),
     OneHot(n, n, Hundredths(10), Hundredths(20)),
     OneHot(n, 0, Hundredths(20), Hundredths(20))}

TagMatrices ==
    MatricesOf([1..NumTags -> {Hundredths(10), Hundredths(15), Hundredths(20)}]
               \cup [1..(NumTags + 1) -> {Hundredths(10), Hundredths(15), Hundredths(20)}]
               \cup [1..(NumTags - 1) -> {Hundredths(10), Hundredths(15), Hundredths(20)}],
               [n \in {NumTags - 1, NumTags, NumTags + 1} |-> TagPalette(n)])

MoodValues == {Hundredths(-200), Hundredths(30), Hundredths(50), Hundredths(70),
               Hundredths(150), Hundredths(200), Hundredths(500), Hundredths(600)}

MoodPalette ==
    {<<Hundredths(50), Hundredths(50)>>, <<Hundredths(150), Hundredths(30)>>,
     <<Hundredths(500), Hundredths(600)>>}

MoodMatrices == MatricesOf(MoodValues \X MoodValues, [n \in {2} |-> MoodPalette])

GenreSample ==
    {<<[i \in 1..NumGenres |-> Hundredths(10 + i)]>>,
     <<[i \in 1..(NumGenres - 1) |-> Hundredths(30 - i)]>>}

TagSample ==
    {<<OneHot(NumTags, 1, Hundredths(10), Hundredths(20))>>,
     <<OneHot(NumTags, 0, Hundredths(10), Hundredths(20))>>}

MoodSample ==
    {<<<<Hundredths(70), Hundredths(30)>>>>, <<<<Hundredths(200), Hundredths(600)>>>>}

AllModels == {GenrePathNested, MusicnnPathNested, MoodPath}

ClassificationIdle ==
    /\ cpc = "idle" /\ files = {} /\ raises = {} /\ audio_16k = "none"
    /\ activations = <<>> /\ tags_activations = <<>> /\ mood_preds = <<>>
    /\ genres = Placeholder /\ moods = Placeholder /\ tags = <<>>

\* lines 172-177: the environment and what the models would return, then the
\* placeholders
InitClassification ==
    /\ cpc = "resample"
    /\ audio_16k = "none"
    /\ \/ /\ files \in SUBSET ModelPaths
          /\ raises \in SUBSET FailPoints
          /\ activations \in GenreSample
          /\ tags_activations \in TagSample
          /\ mood_preds \in MoodSample
       \/ /\ files = AllModels /\ raises = {}
          /\ activations \in GenreMatrices
          /\ tags_activations \in TagSample
          /\ mood_preds \in MoodSample
       \/ /\ files = AllModels /\ raises = {}
          /\ activations \in GenreSample
          /\ tags_activations \in TagMatrices
          /\ mood_preds \in MoodSample
       \/ /\ files = AllModels /\ raises = {}
          /\ activations \in GenreSample
          /\ tags_activations \in TagSample
          /\ mood_preds \in MoodMatrices
    /\ genres = Placeholder
    /\ moods = Placeholder
    /\ tags = <<>>

\* lines 181-186
Resample ==
    /\ cpc = "resample"
    /\ audio_16k' = IF "resample" \in raises THEN "original" ELSE "resampled"
    /\ cpc' = "genre"
    /\ UNCHANGED <<files, raises, activations, tags_activations, mood_preds,
                   genres, moods, tags, ovars, svars>>

\* line 197 false: no genre model
GenreSkip ==
    /\ cpc = "genre"
    /\ ~GenreModelExists
    /\ cpc' = "tags"
    /\ UNCHANGED <<files, raises, audio_16k, activations, tags_activations,
                   mood_preds, genres, moods, tags, ovars, svars>>

\* lines 199-203 raise, line 217 catches
GenreFail ==
    /\ cpc = "genre"
    /\ GenreModelExists
    /\ "genre" \in raises
    /\ cpc' = "tags"
    /\ UNCHANGED <<files, raises, audio_16k, activations, tags_activations,
                   mood_preds, genres, moods, tags, ovars, svars>>

\* lines 199-216
GenreClassify ==
    /\ cpc = "genre"
    /\ GenreModelExists
    /\ "genre" \notin raises
    /\ LET mean_activations == MeanAxis0(activations)
       IN \E p \in ArgSorts(mean_activations) :
              genres' = GenreResult(genres, mean_activations, p)
    /\ cpc' = "tags"
    /\ UNCHANGED <<files, raises, audio_16k, activations, tags_activations,
                   mood_preds, moods, tags, ovars, svars>>

\* line 228 false: no MusiCNN model, neither tags nor mood
TagSkip ==
    /\ cpc = "tags"
    /\ ~MusicnnModelExists
    /\ cpc' = "done"
    /\ UNCHANGED <<files, raises, audio_16k, activations, tags_activations,
                   mood_preds, genres, moods, tags, ovars, svars>>

\* lines 241-248 raise: line 307 catches, the rest of the block is skipped
TagFail ==
    /\ cpc = "tags"
    /\ MusicnnModelExists
    /\ "tags" \in raises
    /\ cpc' = "done"
    /\ UNCHANGED <<files, raises, audio_16k, activations, tags_activations,
                   mood_preds, genres, moods, tags, ovars, svars>>

\* lines 241-253
TagClassify ==
    /\ cpc = "tags"
    /\ MusicnnModelExists
    /\ "tags" \notin raises
    /\ LET mean_tags == MeanAxis0(tags_activations)
       IN tags' = tags \o TagList(mean_tags, Len(mean_tags))
    /\ cpc' = "embeddings"
    /\ UNCHANGED <<files, raises, audio_16k, activations, tags_activations,
                   mood_preds, genres, moods, ovars, svars>>

\* lines 258-259
Embeddings ==
    /\ cpc = "embeddings"
    /\ cpc' = IF "embeddings" \in raises THEN "done" ELSE "mood"
    /\ UNCHANGED <<files, raises, audio_16k, activations, tags_activations,
                   mood_preds, genres, moods, tags, ovars, svars>>

\* line 263 false: no mood head
MoodSkip ==
    /\ cpc = "mood"
    /\ ~MoodModelExists
    /\ cpc' = "done"
    /\ UNCHANGED <<files, raises, audio_16k, activations, tags_activations,
                   mood_preds, genres, moods, tags, ovars, svars>>

\* lines 266-271 raise, line 307 catches
MoodFail ==
    /\ cpc = "mood"
    /\ MoodModelExists
    /\ "mood" \in raises
    /\ cpc' = "done"
    /\ UNCHANGED <<files, raises, audio_16k, activations, tags_activations,
                   mood_preds, genres, moods, tags, ovars, svars>>

\* lines 266-305
MoodClassify ==
    /\ cpc = "mood"
    /\ MoodModelExists
    /\ "mood" \notin raises
    /\ moods' = MoodResult(mood_preds)
    /\ cpc' = "done"
    /\ UNCHANGED <<files, raises, audio_16k, activations, tags_activations,
                   mood_preds, genres, tags, ovars, svars>>

NextClassification ==
    \/ Resample
    \/ GenreSkip \/ GenreFail \/ GenreClassify
    \/ TagSkip \/ TagFail \/ TagClassify
    \/ Embeddings
    \/ MoodSkip \/ MoodFail \/ MoodClassify

\* one pipeline is called, the other two are not
InitOnsetsCall == InitOnsets /\ StructureIdle /\ ClassificationIdle
InitStructureCall == OnsetsIdle /\ InitStructure /\ ClassificationIdle
InitClassificationCall == OnsetsIdle /\ StructureIdle /\ InitClassification

SpecOnsets == InitOnsetsCall /\ [][NextOnsets]_vars
SpecStructure == InitStructureCall /\ [][NextStructure]_vars
SpecClassification == InitClassificationCall /\ [][NextClassification]_vars

\* ==================================================================== claims
\* C1: the timeline built by get_high_quality_onsets is sorted ascending and
\* every two adjacent entries are at least 50 ms apart, whatever the two
\* candidate sets are.
C1_MinGap ==
    \A i \in 1..(Len(filtered_onsets) - 1) :
        /\ filtered_onsets[i] < filtered_onsets[i + 1]
        /\ filtered_onsets[i + 1] - filtered_onsets[i] >= 50

\* a finished fusion that kept several onsets, dropped one, and kept two that
\* are exactly 50 ms apart
C1_Witness ==
    /\ opc = "done"
    /\ Len(filtered_onsets) >= 2
    /\ Len(all_onsets) > Len(filtered_onsets)
    /\ \E i \in 1..(Len(filtered_onsets) - 1) :
          filtered_onsets[i + 1] - filtered_onsets[i] = 50

\* C2: with 4 or more boundaries the returned sections tile [0, duration]:
\* one section per consecutive boundary pair, the first starting at 0, the
\* last ending at duration, each ending where the next one starts.
C2_Tiling ==
    (spc = "done" /\ Len(boundaries) >= 4) =>
        /\ Len(sections) = Len(boundaries) - 1
        /\ sections[1].start = 0
        /\ sections[Len(sections)].end = NumSamples(audio)
        /\ \A i \in 1..(Len(sections) - 1) : sections[i].end = sections[i + 1].start

\* a finished segmentation of 5 boundaries with a cut strictly inside the track
C2_Witness ==
    /\ spc = "done"
    /\ Len(boundaries) = 5
    /\ Len(sections) = 4
    /\ \E i \in 1..Len(sections) :
          0 < sections[i].start /\ sections[i].start < sections[i].end

\* C3: with fewer than 4 boundaries exactly one section is returned, labelled
\* "full", from 0 to duration and of length duration; with 4 or more
\* boundaries no section is labelled "full".
C3_FallbackIffFewBoundaries ==
    spc = "done" =>
        /\ Len(boundaries) < 4 =>
              /\ Len(sections) = 1
              /\ sections[1].start = 0
              /\ sections[1].end = NumSamples(audio)
              /\ sections[1].duration = NumSamples(audio)
              /\ sections[1].label = "full"
        /\ Len(boundaries) >= 4 =>
              \A i \in 1..Len(sections) : sections[i].label # "full"

\* the fallback taken with one cut point (3 boundaries)
C3_Witness ==
    /\ spc = "done"
    /\ Len(boundaries) = 3
    /\ Len(sections) = 1
    /\ sections[1].label = "full"

IsSingleFullSection ==
    /\ Len(sections) = 1
    /\ sections[1] = [start |-> 0, end |-> NumSamples(audio),
                      label |-> "full", duration |-> NumSamples(audio)]

\* C4 as stated: whenever the estimator returns at most 2 frame indices, the
\* result is the single "full" section.
C4_Original ==
    (spc = "done" /\ Len(boundaries_frames) <= 2) => IsSingleFullSection

\* C4 as amended: whenever the estimator returns at most 1 frame index (so
\* that the boundary list has fewer than 4 entries), the result is the single
\* "full" section spanning the whole duration.
C4_FallbackUpToOneCut ==
    (spc = "done" /\ Len(boundaries_frames) <= 1) => IsSingleFullSection

\* the fallback taken when the estimator returned exactly one frame index
C4_Witness ==
    /\ spc = "done"
    /\ Len(boundaries_frames) = 1
    /\ IsSingleFullSection

\* offsets of the runs of the audio, for the reference energy
RECURSIVE RunStart(_, _)
RunStart(a, r) == IF r = 1 THEN 0 ELSE RunStart(a, r - 1) + a[r - 1][1]

RECURSIVE SumOver(_, _)
SumOver(f, S) ==
    IF S = {} THEN 0
    ELSE LET r == CHOOSE x \in S : TRUE IN f[r] + SumOver(f, S \ {r})

\* the number of samples of run r that lie in [lo, hi)
Overlap(a, r, lo, hi) ==
    LET from == IF lo > RunStart(a, r) THEN lo ELSE RunStart(a, r)
        upto == IF hi < RunStart(a, r) + a[r][1] THEN hi ELSE RunStart(a, r) + a[r][1]
    IN IF upto > from THEN upto - from ELSE 0

\* the two-stage reference rule: position first, then mean squared amplitude
\* of the samples in [start, end) against 0.04 (0 for an empty slice)
ReferenceLabel(a, start, end) ==
    LET total == NumSamples(a)
        count == SumOver([r \in DOMAIN a |-> Overlap(a, r, start, end)], DOMAIN a)
        squares == SumOver([r \in DOMAIN a |-> a[r][2] * Overlap(a, r, start, end)],
                           DOMAIN a)
    IN IF 5 * (start + end) < total THEN "intro"
       ELSE IF 5 * (start + end) > 9 * total THEN "outro"
       ELSE IF count > 0 /\ 100 * squares > 4 * 100 * count THEN "chorus"
       ELSE "verse"

\* C10: in the non-fallback case every section carries the label of the
\* two-stage reference rule, position taking priority over energy: a section
\* whose midpoint lies in the first 10% is "intro" and never "chorus".
C10_LabelRule ==
    (spc = "done" /\ Len(boundaries) >= 4) =>
        \A i \in 1..Len(sections) :
            /\ sections[i].label =
                  ReferenceLabel(audio, sections[i].start, sections[i].end)
            /\ 5 * (sections[i].start + sections[i].end) < NumSamples(audio)
                  => sections[i].label = "intro"

\* a finished segmentation with a loud opening section labelled "intro", a
\* "chorus", and an empty interior section labelled "verse"
C10_Witness ==
    /\ spc = "done"
    /\ Len(boundaries) >= 4
    /\ \E i \in 1..Len(sections) :
          /\ sections[i].label = "intro"
          /\ IsLoud(audio, sections[i].start, sections[i].end)
    /\ \E i \in 1..Len(sections) : sections[i].label = "chorus"
    /\ \E i \in 1..Len(sections) :
          /\ sections[i].label = "verse"
          /\ sections[i].start = sections[i].end

\* ------------------------------------------------ classification: vocabulary
GenrePresent == GenrePathNested \in files \/ GenrePathFlat \in files
MusicnnPresent == MusicnnPathNested \in files \/ MusicnnPathFlat \in files
MoodPresent == MoodPath \in files

\* the genre model was run and returned
GenreRan == cpc \in {"tags", "embeddings", "mood", "done"} /\ GenrePresent
            /\ "genre" \notin raises
\* the tag model was run and returned
TagsRan == cpc \in {"embeddings", "mood", "done"} /\ MusicnnPresent
           /\ "tags" \notin raises
\* the mood model was run and returned
MoodRan == cpc = "done" /\ MusicnnPresent /\ MoodPresent
           /\ raises \cap {"tags", "embeddings", "mood"} = {}

RECURSIVE FrameSum(_, _, _)
FrameSum(m, j, S) ==
    IF S = {} THEN 0
    ELSE LET f == CHOOSE x \in S : TRUE IN m[f][j] + FrameSum(m, j, S \ {f})

\* the sum over the frames of column j: the average times the frame count
Total(m, j) == FrameSum(m, j, DOMAIN m)

Keys(d) == {e[1] : e \in d}
Range(q) == {q[i] : i \in DOMAIN q}

\* C5: when the averaged genre vector has the length of the vocabulary,
\* all_scores has at most 5 entries, its keys are vocabulary labels, and label
\* and confidence are the label and the average at the arg-max index (the
\* first index holding the maximal average).
C5_GenreTop ==
    (GenreRan /\ Len(activations[1]) = NumGenres) =>
        /\ Cardinality(genres.all_scores) <= 5
        /\ Cardinality(Keys(genres.all_scores)) = Cardinality(genres.all_scores)
        /\ Keys(genres.all_scores) \subseteq {GENRE_LABELS[i] : i \in 1..NumGenres}
        /\ \E k \in 1..NumGenres :
              /\ \A j \in 1..NumGenres : Total(activations, j) <= Total(activations, k)
              /\ \A j \in 1..(k - 1) : Total(activations, j) < Total(activations, k)
              /\ genres.label = GENRE_LABELS[k]
              /\ genres.confidence * Len(activations) = Total(activations, k)

\* a genre result from several frames whose maximum is shared by two labels
\* and is not at the first index
C5_Witness ==
    /\ cpc = "done" /\ GenreRan
    /\ Len(activations) >= 2
    /\ Len(activations[1]) = NumGenres
    /\ Cardinality(genres.all_scores) = 5
    /\ genres.label # GENRE_LABELS[1]
    /\ Cardinality({j \in 1..NumGenres :
                       Total(activations, j) = genres.confidence * Len(activations)}) = 2

TagIndex(l) == CHOOSE i \in 1..NumTags : TAG_LABELS[i] = l

ValenceTotal == Total(mood_preds, 1)
ArousalTotal == Total(mood_preds, 2)

\* is the average whose total is t at least c hundredths
AtLeast(t, c) == t >= c * FrameLcm * Len(mood_preds)

\* is the average whose total is t at most c hundredths
AtMost(t, c) == t <= c * FrameLcm * Len(mood_preds)

\* the centre in hundredths: 0.5 if max(|valence|, |arousal|) <= 1.5, else 5.0
ReferenceCenter ==
    IF /\ AtLeast(ValenceTotal, -150) /\ AtMost(ValenceTotal, 150)
       /\ AtLeast(ArousalTotal, -150) /\ AtMost(ArousalTotal, 150)
    THEN 50 ELSE 500

ReferenceMood ==
    LET v == AtLeast(ValenceTotal, ReferenceCenter)
        a == AtLeast(ArousalTotal, ReferenceCenter)
    IN IF v /\ a THEN "Happy"
       ELSE IF v /\ ~a THEN "Relaxed"
       ELSE IF ~v /\ ~a THEN "Sad"
       ELSE "Aggressive"

ExpectedGenreLabel ==
    IF GenrePresent /\ "genre" \notin raises
    THEN IF Len(activations[1]) = NumGenres
         THEN GENRE_LABELS[ArgMax(MeanAxis0(activations))]
         ELSE "Error: Dimension Mismatch"
    ELSE "Unknown"

ExpectedTags ==
    IF MusicnnPresent /\ "tags" \notin raises
    THEN TagList(MeanAxis0(tags_activations), Len(tags_activations[1]))
    ELSE <<>>

ExpectedMoods ==
    IF MusicnnPresent /\ MoodPresent /\ raises \cap {"embeddings", "mood"} = {}
    THEN MoodResult(mood_preds)
    ELSE Placeholder

\* C8: a failure of one of the three stages affects that stage only: whatever
\* fails, each of genres, tags and moods is what its own stage gives; a tag
\* failure does not prevent the mood result.
C8_StageIsolation ==
    cpc = "done" =>
        /\ genres.label = ExpectedGenreLabel
        /\ tags = ExpectedTags
        /\ moods = ExpectedMoods

\* C9: for every combination of present and absent weight files the call
\* ends with a result; a sub-result whose model is absent keeps its
\* placeholder, and a sub-result whose models are present and did not fail is
\* what its stage computes, whichever other files are absent.
C9_AbsentModels ==
    /\ cpc \in {"idle", "resample", "genre", "tags", "embeddings", "mood", "done"}
    /\ cpc = "done" =>
          /\ ~GenrePresent => genres = Placeholder
          /\ ~MusicnnPresent => (tags = <<>> /\ moods = Placeholder)
          /\ ~MoodPresent => moods = Placeholder
          /\ (GenrePresent /\ "genre" \notin raises) =>
                genres.label = ExpectedGenreLabel /\ genres.label # "Unknown"
          /\ (MusicnnPresent /\ "tags" \notin raises) => tags = ExpectedTags
          /\ (MusicnnPresent /\ MoodPresent
              /\ raises \cap {"tags", "embeddings", "mood"} = {}) =>
                moods = MoodResult(mood_preds)

\* only the flat genre file and the tag model exist: genre and tags are
\* computed, the mood keeps its placeholder
C9_Witness ==
    /\ cpc = "done"
    /\ files = {GenrePathFlat, MusicnnPathNested}
    /\ raises = {}
    /\ genres.label \notin {"Unknown", "Error: Dimension Mismatch"}
    /\ tags # <<>>
    /\ moods = Placeholder

\* C11: when the averaged genre vector has another length than the
\* vocabulary, nothing is raised and the genre result is the sentinel label
\* "Error: Dimension Mismatch" with confidence 0.0 and empty all_scores; the
\* tag and mood stages still run.
C11_DimensionMismatch ==
    (GenreRan /\ Len(activations[1]) # NumGenres) =>
        /\ genres.label = "Error: Dimension Mismatch"
        /\ genres.confidence = 0
        /\ genres.all_scores = {}
        /\ cpc = "done" =>
              /\ (MusicnnPresent /\ "tags" \notin raises) => tags = ExpectedTags
              /\ (MusicnnPresent /\ MoodPresent
                  /\ raises \cap {"tags", "embeddings", "mood"} = {}) =>
                    moods = MoodResult(mood_preds)

\* a finished call with a genre vector one short of the vocabulary, the
\* sentinel label, and both later stages having produced their results
C11_Witness ==
    /\ cpc = "done" /\ GenreRan
    /\ Len(activations[1]) = NumGenres - 1
    /\ genres.label = "Error: Dimension Mismatch"
    /\ tags # <<>>
    /\ moods.label \in {"Happy", "Relaxed", "Sad", "Aggressive"}

\* C12: for every list of frame indices the estimator may return, the
\* sections are ordered by start time without gaps or overlaps, every
\* section has 0 <= start <= end <= duration (a non-negative duration field),
\* and the returned boundaries are ascending from 0 to duration.
C12_OrderedWithinDuration ==
    spc = "done" =>
        /\ \A i \in 1..Len(sections) :
              /\ 0 <= sections[i].start
              /\ sections[i].start <= sections[i].end
              /\ sections[i].end <= NumSamples(audio)
              /\ sections[i].duration >= 0
        /\ \A i \in 1..(Len(sections) - 1) :
              /\ sections[i].start <= sections[i + 1].start
              /\ sections[i].end = sections[i + 1].start
        /\ boundaries[1] = 0
        /\ boundaries[Len(boundaries)] = NumSamples(audio)
        /\ \A i \in 1..(Len(boundaries) - 1) : boundaries[i] <= boundaries[i + 1]

\* the left-to-right greedy filter in exact milliseconds: the first candidate
\* is kept, a later one iff it is at least 50 ms after the last kept one
RECURSIVE GreedyReference(_, _)
GreedyReference(kept, rest) ==
    IF rest = <<>> THEN kept
    ELSE IF kept = <<>> \/ Head(rest) - kept[Len(kept)] >= 50
         THEN GreedyReference(Append(kept, Head(rest)), Tail(rest))
         ELSE GreedyReference(kept, Tail(rest))

\* C13: the fused timeline is the greedy reference applied to the sorted
\* union of the millisecond-rounded candidates: a candidate is kept iff it
\* is at least 50 ms after the last kept one; two empty sets give an empty
\* timeline.
C13_GreedyReference ==
    opc = "done" =>
        filtered_onsets =
            GreedyReference(<<>>, SortedOfSet({RoundMs(t) : t \in onsets_hfc}
                                              \cup {RoundMs(t) : t \in onsets_complex}))

\* C14: whenever the genre stage produces a top-1 label, that label is a key
\* of all_scores and its value there is the reported confidence, also when
\* more than five entries tie for the maximum.
C14_TopLabelInScores ==
    (GenreRan /\ Len(activations[1]) = NumGenres) =>
        \E e \in genres.all_scores :
            e[1] = genres.label /\ e[2] = genres.confidence
====
